---- MODULE Spec2Model ----
(***************************************************************************)
(* Lobby coordination of lobby-spy: the Lobby / User / LobbyJoinRequest    *)
(* rows of the Prisma schema and the LobbyService operations reached       *)
(* through LobbyController.  Every HTTP request is a process: JwtStrategy  *)
(* loads the caller's user row, IsLobbyOwnerGuard runs on the owner-only   *)
(* routes, then the service method runs; each awaited Prisma call is one   *)
(* atomic step, and steps of different requests interleave freely.         *)
(***************************************************************************)
EXTENDS Integers, FiniteSets, Sequences, TLC

\* ---------------------------------------------------------------- bounds
NumUsers == 3
NumLobbies == 2
MaxInFlight == 2
\* Lobby.capacity is a column with @default(30); the model scales it down.
DefaultCapacity == 2
MaxSockets == 2

Users == 1..NumUsers
Lobbies == 1..NumLobbies
Procs == 1..MaxInFlight
Sockets == 1..MaxSockets
None == 0

Visibilities == {"PUBLIC", "PRIVATE"}

VARIABLES
    lobby,          \* Lobby rows: id -> [ownerId, visibility, capacity]
    userLobbyId,    \* User.lobbyId (the memberLobby relation), None = null
    userRole,       \* User.role
    joinRequests,   \* LobbyJoinRequest rows per <<userId, lobbyId>> (row count)
    proc,           \* in-flight HTTP requests
    workload,       \* the routes the clients call and the lobby ids they name
    socket,         \* the socket.io connections of the lobby namespace
    connectedUsers, \* LobbyGateway.connectedUsers: user id -> socket
    inbound         \* the last client message a @SubscribeMessage handler took

vars == <<lobby, userLobbyId, userRole, joinRequests, proc, workload,
          socket, connectedUsers, inbound>>
store == <<lobby, userLobbyId, userRole, joinRequests>>
gateway == <<socket, connectedUsers, inbound>>

\* ------------------------------------------------------- results / errors
Ok(msg) == [kind |-> "OK", message |-> msg]
NotFoundException(msg) == [kind |-> "NotFound", message |-> msg]
ForbiddenException(msg) == [kind |-> "Forbidden", message |-> msg]
BadRequestException(msg) == [kind |-> "BadRequest", message |-> msg]
\* An error thrown by the Prisma client (P2002 unique violation, P2025
\* record to delete not found).
PrismaError(code) == [kind |-> "PrismaError", message |-> code]
NoResult == [kind |-> "none", message |-> ""]

\* LobbyService.handleServiceError: the three HTTP exceptions pass through,
\* anything else becomes a BadRequest with a fixed text for the context.
handleServiceError(error, context) ==
    IF error.kind \in {"NotFound", "Forbidden", "BadRequest"}
    THEN error
    ELSE BadRequestException("unexpected: " \o context)

\* ----------------------------------------------------------- store reads
LobbyExists(l) == l \in DOMAIN lobby
\* lobby.members: the users whose lobbyId references the lobby
Members(l) == {u \in Users : userLobbyId[u] = l}
\* user.lobby: the lobby whose ownerId is the user (ownerId is @unique)
OwnedLobbies(u) == {l \in DOMAIN lobby : lobby[l].ownerId = u}
RequestsOfUser(u) == {l \in Lobbies : joinRequests[<<u, l>>] > 0}

\* A workload: the routes the clients call, how many lobby ids they name,
\* the visibilities they ask for and how many requests they keep in flight.
JoinWorkload ==
    [ops |-> {"createLobby", "createJoinRequest", "cancelJoinRequest",
              "approveJoinRequest", "rejectJoinRequest"},
     lobbies |-> 1, visibilities |-> {"PUBLIC"}, concurrency |-> MaxInFlight,
     sockets |-> 0, tokens |-> {}, hints |-> {}, creators |-> Users]
OwnerWorkload ==
    [ops |-> {"createLobby", "createJoinRequest", "approveJoinRequest",
              "rejectJoinRequest", "getPendingRequests",
              "updateLobbyVisibility", "removeMember"},
     lobbies |-> 1, visibilities |-> Visibilities,
     concurrency |-> MaxInFlight,
     sockets |-> 0, tokens |-> {}, hints |-> {}, creators |-> Users]
TwoLobbiesWorkload ==
    [ops |-> {"createLobby", "createJoinRequest"},
     lobbies |-> NumLobbies, visibilities |-> {"PUBLIC"},
     concurrency |-> MaxInFlight,
     sockets |-> 0, tokens |-> {}, hints |-> {}, creators |-> Users]
AffiliationWorkload ==
    [ops |-> {"createLobby", "createJoinRequest", "approveJoinRequest",
              "leaveLobby"},
     lobbies |-> NumLobbies, visibilities |-> {"PUBLIC"}, concurrency |-> 1,
     sockets |-> 0, tokens |-> {}, hints |-> {}, creators |-> Users]
ReadWorkload ==
    [ops |-> {"createLobby", "createJoinRequest", "approveJoinRequest",
              "leaveLobby", "getLobby", "getMyLobby"},
     lobbies |-> 1, visibilities |-> Visibilities, concurrency |-> 1,
     sockets |-> 0, tokens |-> {}, hints |-> {}, creators |-> Users]

\* Every route, one request at a time, over a database that may fail.
FaultsWorkload ==
    [ops |-> {"createLobby", "createJoinRequest", "cancelJoinRequest",
              "approveJoinRequest", "rejectJoinRequest", "getPendingRequests",
              "getMyLobby", "getLobby", "updateLobbyVisibility", "leaveLobby",
              "removeMember"},
     lobbies |-> 1, visibilities |-> {"PUBLIC"}, concurrency |-> 1,
     sockets |-> 0, tokens |-> {}, hints |-> {}, creators |-> {1}]
\* The notifying routes, one request at a time, beside one connection
\* that comes and goes.
DeliveryWorkload ==
    [ops |-> {"createLobby", "createJoinRequest", "cancelJoinRequest",
              "approveJoinRequest", "rejectJoinRequest", "leaveLobby",
              "removeMember"},
     lobbies |-> 1, visibilities |-> {"PUBLIC"}, concurrency |-> 1,
     sockets |-> 1, tokens |-> {"valid"}, hints |-> {}, creators |-> {1}]
\* Client messages on one connection whose token may name either lobby.
MessagesWorkload ==
    [ops |-> {}, lobbies |-> 1, visibilities |-> {"PUBLIC"}, concurrency |-> 0,
     sockets |-> 1, tokens |-> {"valid"}, hints |-> Lobbies,
     creators |-> Users]
\* Socket traffic only: connections with missing, rejected and verified
\* tokens, no HTTP request.
RegistryWorkload ==
    [ops |-> {}, lobbies |-> 1, visibilities |-> {"PUBLIC"}, concurrency |-> 0,
     sockets |-> MaxSockets, tokens |-> {"missing", "invalid", "valid"},
     hints |-> {1}, creators |-> Users]
\* The routes that notify, one request at a time, beside connections with
\* verified tokens.
EventsWorkload ==
    [ops |-> {"createLobby", "createJoinRequest", "approveJoinRequest",
              "rejectJoinRequest", "removeMember", "leaveLobby"},
     lobbies |-> 1, visibilities |-> {"PUBLIC"}, concurrency |-> 1,
     sockets |-> 1, tokens |-> {"valid"}, hints |-> {1}, creators |-> Users]
\* Join requests to a lobby whose owner and members hold sessions.
SessionsWorkload ==
    [ops |-> {"createLobby", "createJoinRequest", "approveJoinRequest"},
     lobbies |-> 1, visibilities |-> {"PUBLIC"}, concurrency |-> 1,
     sockets |-> MaxSockets, tokens |-> {"valid"}, hints |-> {1},
     creators |-> {1}]
\* A requester with more than one session, each on the personal room only,
\* while the owner of the lobby rejects.
ReconnectWorkload ==
    [ops |-> {"createLobby", "createJoinRequest", "rejectJoinRequest"},
     lobbies |-> 1, visibilities |-> {"PUBLIC"}, concurrency |-> 1,
     sockets |-> MaxSockets, tokens |-> {"valid"}, hints |-> {},
     creators |-> {1}]

\* One connection whose token AuthService issued, while the owner of the
\* lobby rejects requests.
IssuedWorkload ==
    [ops |-> {"createLobby", "createJoinRequest", "rejectJoinRequest"},
     lobbies |-> 1, visibilities |-> {"PUBLIC"}, concurrency |-> 1,
     sockets |-> 1, tokens |-> {"issued"}, hints |-> {},
     creators |-> {1}]

\* Every route that writes the store, on one lobby.
LifecycleWorkload ==
    [ops |-> {"createLobby", "createJoinRequest", "cancelJoinRequest",
              "approveJoinRequest", "rejectJoinRequest",
              "updateLobbyVisibility", "leaveLobby", "removeMember"},
     lobbies |-> 1, visibilities |-> {"PRIVATE"},
     concurrency |-> MaxInFlight,
     sockets |-> 0, tokens |-> {}, hints |-> {}, creators |-> {1}]

\* Every route, one request at a time, on lobbies of either visibility.
FrameWorkload ==
    [ops |-> {"createLobby", "createJoinRequest", "cancelJoinRequest",
              "approveJoinRequest", "rejectJoinRequest", "getPendingRequests",
              "getMyLobby", "getLobby", "updateLobbyVisibility", "leaveLobby",
              "removeMember"},
     lobbies |-> NumLobbies, visibilities |-> Visibilities, concurrency |-> 1,
     sockets |-> 0, tokens |-> {}, hints |-> {}, creators |-> {1, 2}]

Idle == [op |-> "none", pc |-> "idle", caller |-> None, lobbyId |-> None,
         userId |-> None, visibility |-> "PUBLIC", memberLobby |-> None,
         ownedLobby |-> None, newLobby |-> None, result |-> NoResult,
         events |-> {}]

\* A socket slot no client is connected on.
NoToken == [kind |-> "none", sub |-> None, id |-> None, lobbyId |-> None,
            memberLobbyId |-> None]
FreeSocket == [pc |-> "free", open |-> FALSE, token |-> NoToken,
               user |-> None, rooms |-> {}, received |-> {}]

\* No client message has been handled.
NoMessage == [name |-> "none", socket |-> None, lobbyId |-> None,
              userId |-> None, status |-> "none", error |-> "", events |-> {}]

InitStore ==
    /\ lobby = [l \in {} |-> None]
    /\ userLobbyId = [u \in Users |-> None]
    /\ userRole = [u \in Users |-> "MEMBER"]
    /\ joinRequests = [k \in Users \X Lobbies |-> 0]
    /\ proc = [p \in Procs |-> Idle]
    /\ socket = [s \in Sockets |-> FreeSocket]
    /\ connectedUsers = [u \in Users |-> None]
    /\ inbound = NoMessage

\* The schema without the @@unique([userId, lobbyId]) constraint.
NoUniqueConstraint(u, l) == TRUE
\* ------------------------------------------------ schema constraints / checks
\* @@unique([userId, lobbyId]) on LobbyJoinRequest: TRUE when an insert of
\* <<u, l>> is accepted.
UniqueUserIdLobbyId(u, l) == joinRequests[<<u, l>>] = 0
\* ownerId @unique on Lobby: TRUE when u may be connected as owner of a new row.
UniqueOwnerId(u) == OwnedLobbies(u) = {}
\* lobbyJoinRequest.findFirst({where: {userId}})
findFirstByUser(u) == RequestsOfUser(u) # {}
\* lobbyJoinRequest.findUnique({where: {userId_lobbyId}})
findUniqueRequest(u, l) == joinRequests[<<u, l>>] > 0
\* The capacity check written with > instead of >=.
AtCapacityStrict(l) == Cardinality(Members(l)) > lobby[l].capacity
\* lobby.members.length >= lobby.capacity
AtCapacity(l) == Cardinality(Members(l)) >= lobby[l].capacity
\* A guard that lets every authenticated user through.
GuardAnyUser(l, u) == TRUE
\* IsLobbyOwnerGuard: lobby.ownerId !== user.id is the refusal
GuardOwnerMatches(l, u) == lobby[l].ownerId = u
\* LobbyService: lobby.ownerId !== owner.id is the refusal
ServiceOwnerMatches(l, u) == lobby[l].ownerId = u
\* getLobby: lobby.visibility === 'PRIVATE' && user.memberLobby?.id !== lobbyId
PrivateAndNotMember(l, memberLobby) ==
    lobby[l].visibility = "PRIVATE" /\ memberLobby # l
\* A delete that tolerates a missing row (deleteMany).
RecordToDeleteIgnored(u, l) == FALSE
\* lobbyJoinRequest.delete throws P2025 when no row matches the where clause.
RecordToDeleteMissing(u, l) == joinRequests[<<u, l>>] = 0
\* A delete that takes every request to the lobby with it.
DeleteRequestsToLobby(u, l) ==
    [k \in Users \X Lobbies |-> IF k[2] = l THEN 0 ELSE joinRequests[k]]
\* lobbyJoinRequest.delete: the rows after deleting the row of <<u, l>>
DeleteRequest(u, l) ==
    [joinRequests EXCEPT ![<<u, l>>] = IF @ > 0 THEN @ - 1 ELSE @]
\* lobbyJoinRequest.create: the rows after inserting <<u, l>>
CreateRequest(u, l) == [joinRequests EXCEPT ![<<u, l>>] = @ + 1]

\* ----------------------------------------------------------- process steps
OwnerOnlyOps == {"approveJoinRequest", "rejectJoinRequest",
                 "getPendingRequests", "updateLobbyVisibility", "removeMember"}
LobbyArgOps == OwnerOnlyOps \cup {"createJoinRequest", "cancelJoinRequest",
                                  "getLobby"}
UserArgOps == {"approveJoinRequest", "rejectJoinRequest", "removeMember"}
VisibilityArgOps == {"createLobby", "updateLobbyVisibility"}
Ops == LobbyArgOps \cup {"createLobby", "getMyLobby", "leaveLobby"}

At(p, op, pc) == proc[p].op = op /\ proc[p].pc = pc
Goto(p, pc) == proc' = [proc EXCEPT ![p].pc = pc]
\* A method that reports an error when it has notified nobody.
FinishIfDelivered(p, result, events) ==
    proc' = [proc EXCEPT ![p] = [Idle EXCEPT !.op = proc[p].op, !.pc = "done",
                                    !.caller = proc[p].caller,
                                    !.lobbyId = proc[p].lobbyId,
                                    !.userId = proc[p].userId,
                                    !.result =
                                        IF events = {} /\ result.kind = "OK"
                                        THEN BadRequestException("not delivered")
                                        ELSE result,
                                    !.events = events]]
\* The method returns or throws: its locals are gone, the outcome remains.
FinishEmit(p, result, events) ==
    proc' = [proc EXCEPT ![p] = [Idle EXCEPT !.op = proc[p].op, !.pc = "done",
                                    !.caller = proc[p].caller,
                                    !.lobbyId = proc[p].lobbyId,
                                    !.userId = proc[p].userId,
                                    !.result = result,
                                    !.events = events]]
Finish(p, result) == FinishEmit(p, result, {})
Throw(p, error, context) == Finish(p, handleServiceError(error, context))

\* IsLobbyOwnerGuard.canActivate: the error it throws, or NoResult when it
\* lets the request through.
canActivate(l, u) ==
    IF ~LobbyExists(l) THEN ForbiddenException("Lobby not found.")
    ELSE IF ~GuardOwnerMatches(l, u)
    THEN ForbiddenException("You are not the owner of this lobby.")
    ELSE NoResult

\* JwtStrategy.validate and the route's guards.  validate reads the caller's
\* user row with its lobby and memberLobby relations once; that object is
\* what the service method receives.  The owner-only routes never look at
\* those relations, so for them the read that matters is the guard's and the
\* two run as one step.
request(p) ==
    /\ proc[p].pc = "idle"
    /\ p <= workload.concurrency
    /\ \A q \in Procs : q < p => proc[q].pc # "idle"
    /\ \E op \in workload.ops, u \in Users, l \in 1..workload.lobbies,
          t \in Users, v \in workload.visibilities :
        /\ op = "createLobby" => u \in workload.creators
        /\ op = "createLobby" =>
              Cardinality(DOMAIN lobby) + Cardinality({q \in Procs :
                  At(q, "createLobby", "s1")}) < workload.lobbies
        /\ (op \notin LobbyArgOps) => l = 1
        /\ (op \notin UserArgOps) => t = 1
        /\ (op \notin VisibilityArgOps) =>
              v = CHOOSE w \in workload.visibilities : TRUE
        /\ LET r == [op |-> op, pc |-> "s1", caller |-> u,
                     lobbyId |-> IF op \in LobbyArgOps THEN l ELSE None,
                     userId |-> IF op \in UserArgOps THEN t ELSE None,
                     visibility |-> IF op \in VisibilityArgOps THEN v
                                    ELSE "PUBLIC",
                     memberLobby |-> IF op \in OwnerOnlyOps THEN None
                                     ELSE userLobbyId[u],
                     ownedLobby |-> IF op \in OwnerOnlyOps
                                       \/ OwnedLobbies(u) = {} THEN None
                                    ELSE CHOOSE o \in OwnedLobbies(u) : TRUE,
                     newLobby |-> None, result |-> NoResult,
                     events |-> {}]
           IN IF op \in OwnerOnlyOps /\ canActivate(l, u) # NoResult
              THEN proc' = [proc EXCEPT ![p] =
                       [r EXCEPT !.pc = "done", !.visibility = "PUBLIC",
                                 !.result = canActivate(l, u)]]
              ELSE proc' = [proc EXCEPT ![p] = r]
    /\ UNCHANGED <<store, workload, gateway>>

\* The response has been sent; the request is over.
respond(p) ==
    /\ proc[p].pc = "done"
    /\ proc' = [proc EXCEPT ![p] = Idle]
    /\ UNCHANGED <<store, workload, gateway>>

\* ---------------------------------------------------------------- gateway
\* User.username is nullable; the last user has none.
Username(u) == IF u = NumUsers THEN "" ELSE "player"
\* user.username || 'Anonymous'
DisplayName(u) == IF Username(u) = "" THEN "Anonymous" ELSE Username(u)

\* `user-${id}` and `lobby-${id}`
UserRoom(u) == <<"user", u>>
\* A room for the owner of the lobby alone.
OwnerRoom(l) == <<"owner", l>>
LobbyRoom(l) == <<"lobby", l>>

\* Map.has on a registry
has(registry, u) == registry[u] # None
\* connectedUsers.has(userId)
isUserConnected(u) == has(connectedUsers, u)
\* A registry with one entry per connection.
registerSocket(reg, u, s) == [reg EXCEPT ![s] = s]
\* A registry that keeps the entry a user already has.
registerIfAbsent(reg, u, s) == IF reg[u] = None THEN [reg EXCEPT ![u] = s] ELSE reg
\* connectedUsers.set(user.id, socket)
register(reg, u, s) == [reg EXCEPT ![u] = s]
\* handleDisconnect: if (socket.user?.id) connectedUsers.delete(socket.user.id)
unregister(reg, sock) ==
    IF sock.user # None THEN [reg EXCEPT ![sock.user] = None] ELSE reg
\* A verifier that accepts every token.
verifyAlways(token) == TRUE
\* jwtService.verifyAsync resolves for a token signed with the secret and
\* not expired, and rejects otherwise.
verifyAsync(token) == token.kind \in {"valid", "issued"}
\* AuthService.generateJwt: the payload it signs for user u.
generateJwt(u) == [sub |-> u, steamId |-> u, username |-> Username(u)]
\* A property read from a decoded payload: undefined if the payload has none.
claim(payload, name) == IF name \in DOMAIN payload THEN payload[name] ELSE None
\* What verifyAsync resolves with for a token of AuthService: the payload,
\* of which the gateway reads id, lobbyId and memberLobbyId.
decoded(payload) ==
    [kind |-> "issued", sub |-> claim(payload, "sub"),
     id |-> claim(payload, "id"), lobbyId |-> claim(payload, "lobbyId"),
     memberLobbyId |-> claim(payload, "memberLobbyId")]

\* server.to(room): the connected sockets that joined the room
Recipients(room) ==
    {s \in Sockets : socket[s].open /\ room \in socket[s].rooms}

\* The notify* methods: the event handed to server.to(room).emit, with the
\* sockets it is delivered to.
notifyNewRequest(l, u, username) ==
    [name |-> "join-request", room |-> LobbyRoom(l), userId |-> u,
     username |-> username, to |-> Recipients(LobbyRoom(l))]
notifyRequestCancelled(l, u) ==
    [name |-> "request-cancelled", room |-> LobbyRoom(l), userId |-> u,
     to |-> Recipients(LobbyRoom(l))]
notifyUserRequestUpdate(u, l, status) ==
    IF status = "rejected"
    THEN [name |-> "request-updated", room |-> UserRoom(u), lobbyId |-> l,
          status |-> status, cooldown |-> "6h", to |-> Recipients(UserRoom(u))]
    ELSE [name |-> "request-updated", room |-> UserRoom(u), lobbyId |-> l,
          status |-> status, to |-> Recipients(UserRoom(u))]
notifyNewMember(l, u, username) ==
    [name |-> "member-joined", room |-> LobbyRoom(l), userId |-> u,
     username |-> username, to |-> Recipients(LobbyRoom(l))]
notifyMemberLeft(l, u, username) ==
    [name |-> "member-left", room |-> LobbyRoom(l), userId |-> u,
     username |-> username, to |-> Recipients(LobbyRoom(l))]
notifyVisibilityChange(l, visibility) ==
    [name |-> "visibility-changed", room |-> LobbyRoom(l),
     visibility |-> visibility, to |-> Recipients(LobbyRoom(l))]

\* The socket after socket.disconnect(true) in the catch block; Nest then
\* calls handleDisconnect, which finds no socket.user and does nothing.
disconnect(sock) ==
    [sock EXCEPT !.pc = "refused", !.open = FALSE, !.rooms = {}]
\* The socket when handleConnection returns: a socket the client has left
\* meanwhile is gone, unless the registry still holds it.
Connected(reg, s, sock) ==
    IF sock.open \/ (\E u \in Users : reg[u] = s)
    THEN [sock EXCEPT !.pc = "connected"]
    ELSE FreeSocket

\* A slot no handleConnection is running for and nothing refers to.
Reusable(s) ==
    \/ socket[s].pc \in {"free", "refused"}
    \/ /\ socket[s].pc = "connected"
       /\ ~socket[s].open
       /\ \A u \in Users : connectedUsers[u] # s

\* A client connects: extractToken finds the handshake's token or throws
\* 'Missing authentication token', and verifyAsync is called.
handleConnection_extractToken(s) ==
    /\ s <= workload.sockets
    /\ Reusable(s)
    /\ \A r \in Sockets : r < s => ~Reusable(r)
    /\ \E kind \in workload.tokens, u \in Users,
          o \in {None} \cup workload.hints,
          m \in {None} \cup workload.hints :
        /\ kind = "missing" => u = 1
        /\ kind # "valid" => (o = None /\ m = None)
        /\ LET token == IF kind = "issued" THEN decoded(generateJwt(u))
                        ELSE [kind |-> kind, sub |-> None,
                              id |-> IF kind = "missing" THEN None ELSE u,
                              lobbyId |-> o, memberLobbyId |-> m]
               sock == [FreeSocket EXCEPT !.pc = "verifying", !.open = TRUE,
                                          !.token = token]
           IN socket' = [socket EXCEPT ![s] =
                            IF kind = "missing" THEN disconnect(sock) ELSE sock]
    /\ UNCHANGED <<store, proc, workload, connectedUsers, inbound>>

\* verifyAsync settles.  Rejected: the catch block disconnects.  Resolved:
\* socket.user is set, the socket is registered and joins `user-${id}`.
\* With a payload that has no id the Map's entry is under the key undefined,
\* which no user id reads: the registry here holds the entries of user ids.
handleConnection_verify(s) ==
    /\ socket[s].pc = "verifying"
    /\ LET sock == socket[s]
           u == sock.token.id
       IN IF ~verifyAsync(sock.token)
          THEN /\ socket' = [socket EXCEPT ![s] = disconnect(sock)]
               /\ UNCHANGED connectedUsers
          ELSE /\ connectedUsers' = IF u = None THEN connectedUsers
                                    ELSE register(connectedUsers, u, s)
               /\ socket' = [socket EXCEPT ![s] =
                     [sock EXCEPT !.pc = "joinedUser", !.user = u,
                                  !.rooms = @ \cup {UserRoom(u)}]]
    /\ UNCHANGED <<store, proc, workload, inbound>>

\* The awaited joins that follow: `lobby-${user.lobbyId}` if the token has a
\* lobbyId, then `lobby-${user.memberLobbyId}` if it has a memberLobbyId.
handleConnection_join(s) ==
    /\ socket[s].pc \in {"joinedUser", "joinedOwned", "joinedMember"}
    /\ LET sock == socket[s]
           o == sock.token.lobbyId
           m == sock.token.memberLobbyId
       IN socket' = [socket EXCEPT ![s] =
             IF sock.pc = "joinedUser" /\ o # None
             THEN [sock EXCEPT !.pc = "joinedOwned",
                               !.rooms = @ \cup {LobbyRoom(o)}]
             ELSE IF sock.pc \in {"joinedUser", "joinedOwned"} /\ m # None
             THEN [sock EXCEPT !.pc = "joinedMember",
                               !.rooms = @ \cup {LobbyRoom(m)}]
             ELSE Connected(connectedUsers, s, sock)]
    /\ UNCHANGED <<store, proc, workload, connectedUsers, inbound>>

\* The client goes away: socket.io takes the socket out of its rooms and
\* Nest calls handleDisconnect.  A handleConnection still in flight for the
\* socket runs on.
handleDisconnect(s) ==
    /\ socket[s].open
    /\ connectedUsers' = unregister(connectedUsers, socket[s])
    /\ socket' = [socket EXCEPT ![s] =
          IF socket[s].pc = "connected"
          THEN Connected(connectedUsers', s,
                         [socket[s] EXCEPT !.open = FALSE, !.rooms = {}])
          ELSE [socket[s] EXCEPT !.open = FALSE, !.rooms = {}]]
    /\ UNCHANGED <<store, proc, workload, inbound>>

\* WsExceptionFilter.catch: the 'exception' message sent to the client whose
\* handler threw WsException(message).
WsExceptionFilter(message) ==
    [name |-> "exception", status |-> "error", message |-> message]
\* The Zod schemas of the message bodies: lobbyId and userId are uuids,
\* status is 'accepted' or 'rejected'.
Statuses == {"accepted", "rejected"}
\* A @SubscribeMessage handler has run for a message of socket s: either it
\* threw WsException(error) and the filter answered the client, or it
\* emitted the events.
Handled(s, name, l, u, status, error, events) ==
    /\ inbound' = [name |-> name, socket |-> s, lobbyId |-> l, userId |-> u,
                   status |-> status, error |-> error, events |-> events]
    /\ socket' = [socket EXCEPT ![s].received =
                     IF error = "" THEN @ ELSE @ \cup {WsExceptionFilter(error)}]
    /\ UNCHANGED <<store, proc, workload, connectedUsers>>

\* The guard of handleJoinRequest: !socket.user.lobbyId
HasNoLobbyId(token, l) == token.lobbyId = None
\* A guard that refuses only the session that owns no lobby.
OwnsNoLobby(token, l) == token.lobbyId = None
\* The guard of handleRequestResponse and handleRejectRequest:
\* socket.user.lobbyId !== data.lobbyId
LobbyIdDiffers(token, l) == token.lobbyId # l

\* 'join-request' {lobbyId} from an authenticated socket
handleJoinRequest(s) ==
    /\ socket[s].open /\ socket[s].user # None
    /\ \E l \in Lobbies :
        IF HasNoLobbyId(socket[s].token, l)
        THEN Handled(s, "join-request", l, None, "none",
                     "Only lobby owners can receive join requests", {})
        ELSE Handled(s, "join-request", l, None, "none", "",
                     {notifyNewRequest(l, socket[s].user,
                                       DisplayName(socket[s].user))})

\* 'request-response' {lobbyId, userId, status} from an authenticated socket
handleRequestResponse(s) ==
    /\ socket[s].open /\ socket[s].user # None
    /\ \E l \in Lobbies, u \in Users, status \in Statuses :
        IF LobbyIdDiffers(socket[s].token, l)
        THEN Handled(s, "request-response", l, u, status,
                     "Only lobby owner can respond to requests", {})
        ELSE Handled(s, "request-response", l, u, status, "",
                     {notifyUserRequestUpdate(u, l, status)})

\* 'reject-request' {lobbyId, userId, status} from an authenticated socket
handleRejectRequest(s) ==
    /\ socket[s].open /\ socket[s].user # None
    /\ \E l \in Lobbies, u \in Users, status \in Statuses :
        IF LobbyIdDiffers(socket[s].token, l)
        THEN Handled(s, "reject-request", l, u, status,
                     "Only lobby owner can respond to requests", {})
        ELSE Handled(s, "reject-request", l, u, status, "",
                     {notifyUserRequestUpdate(u, l, "rejected")})

\* ------------------------------------------------------------ createLobby
\* A createLobby that leaves the role as it is.
RoleKept == "MEMBER"
\* data: { role: 'OWNER', ... }
OwnerRole == "OWNER"
\* @default(uuid()): an id no row has yet; ids are numbered in creation order.
uuid == Cardinality(DOMAIN lobby) + 1

\* lobby.create({owner: connect, members: connect}): a row with a fresh id,
\* ownerId = user.id, the default capacity, and user.lobbyId set to the row.
createLobby_create(p) ==
    /\ At(p, "createLobby", "s1")
    /\ LET u == proc[p].caller
       IN IF proc[p].memberLobby # None
          THEN /\ Finish(p, ForbiddenException(
                      "You are already a member or an owner of a lobby"))
               /\ UNCHANGED store
          ELSE IF ~UniqueOwnerId(u)
          THEN /\ Throw(p, PrismaError("P2002"), "create lobby")
               /\ UNCHANGED store
          ELSE LET id == uuid
               IN
               /\ lobby' = [l \in DOMAIN lobby \cup {id} |->
                              IF l = id
                              THEN [ownerId |-> u,
                                    visibility |-> proc[p].visibility,
                                    capacity |-> DefaultCapacity]
                              ELSE lobby[l]]
               /\ userLobbyId' = [userLobbyId EXCEPT ![u] = id]
               /\ proc' = [proc EXCEPT ![p].pc = "s2", ![p].newLobby = id]
               /\ UNCHANGED <<userRole, joinRequests>>
    /\ UNCHANGED <<workload, gateway>>

\* user.update({role: 'OWNER', lobby: connect newLobby, lobbyId: newLobby.id})
createLobby_update_given(p, registry) ==
    /\ At(p, "createLobby", "s2")
    /\ LET u == proc[p].caller
           id == proc[p].newLobby
       IN /\ userRole' = [userRole EXCEPT ![u] = OwnerRole]
          /\ userLobbyId' = [userLobbyId EXCEPT ![u] = id]
          /\ lobby' = [lobby EXCEPT ![id].ownerId = u]
          /\ FinishEmit(p, Ok("lobby created"),
                IF has(registry, u)
                THEN {notifyNewMember(id, u, DisplayName(u))} ELSE {})
    /\ UNCHANGED <<joinRequests, workload, gateway>>
\* The step with the gateway's registry as it is.
createLobby_update(p) == createLobby_update_given(p, connectedUsers)

\* ------------------------------------------------------ createJoinRequest
createJoinRequest_findFirst(p) ==
    /\ At(p, "createJoinRequest", "s1")
    /\ IF findFirstByUser(proc[p].caller)
       THEN Throw(p, BadRequestException(
                "You already have a pending request to another lobby"),
                "create join request")
       ELSE Goto(p, "s2")
    /\ UNCHANGED <<store, workload, gateway>>

createJoinRequest_getLobby(p) ==
    /\ At(p, "createJoinRequest", "s2")
    /\ IF ~LobbyExists(proc[p].lobbyId)
       THEN Throw(p, NotFoundException("Lobby not found"),
                  "create join request")
       ELSE IF proc[p].memberLobby # None
       THEN Throw(p, BadRequestException(
                "You are already a member of a lobby"), "create join request")
       ELSE Goto(p, "s3")
    /\ UNCHANGED <<store, workload, gateway>>

createJoinRequest_findUnique(p) ==
    /\ At(p, "createJoinRequest", "s3")
    /\ IF findUniqueRequest(proc[p].caller, proc[p].lobbyId)
       THEN Throw(p, BadRequestException(
                "You have already sent a request to join this lobby"),
                "create join request")
       ELSE Goto(p, "s4")
    /\ UNCHANGED <<store, workload, gateway>>

createJoinRequest_create_given(p, registry) ==
    /\ At(p, "createJoinRequest", "s4")
    /\ LET u == proc[p].caller
           l == proc[p].lobbyId
       IN IF ~UniqueUserIdLobbyId(u, l)
          THEN /\ Throw(p, PrismaError("P2002"), "create join request")
               /\ UNCHANGED joinRequests
          ELSE /\ joinRequests' = CreateRequest(u, l)
               /\ FinishEmit(p, Ok(
                    "Your join request has been sent and is pending approval."),
                    IF has(registry, lobby[l].ownerId)
                    THEN {notifyNewRequest(l, u, DisplayName(u))} ELSE {})
    /\ UNCHANGED <<lobby, userLobbyId, userRole, workload, gateway>>
\* The step with the gateway's registry as it is.
createJoinRequest_create(p) == createJoinRequest_create_given(p, connectedUsers)

\* ------------------------------------------------------ cancelJoinRequest
cancelJoinRequest_getLobby(p) ==
    /\ At(p, "cancelJoinRequest", "s1")
    /\ IF ~LobbyExists(proc[p].lobbyId)
       THEN Throw(p, NotFoundException("Lobby not found"),
                  "cancel join request")
       ELSE Goto(p, "s2")
    /\ UNCHANGED <<store, workload, gateway>>

cancelJoinRequest_delete_given(p, registry) ==
    /\ At(p, "cancelJoinRequest", "s2")
    /\ LET u == proc[p].caller
           l == proc[p].lobbyId
       IN IF RecordToDeleteMissing(u, l)
          THEN /\ Throw(p, PrismaError("P2025"), "cancel join request")
               /\ UNCHANGED joinRequests
          ELSE /\ joinRequests' = DeleteRequest(u, l)
               /\ FinishEmit(p, Ok("Join request has been cancelled"),
                    IF has(registry, lobby[l].ownerId)
                    THEN {notifyRequestCancelled(l, u)} ELSE {})
    /\ UNCHANGED <<lobby, userLobbyId, userRole, workload, gateway>>
\* The step with the gateway's registry as it is.
cancelJoinRequest_delete(p) == cancelJoinRequest_delete_given(p, connectedUsers)

\* ----------------------------------------------------- approveJoinRequest
\* getLobbyById (owner and members included), the owner check and the
\* capacity check on the members just read.
approveJoinRequest_getLobby(p) ==
    /\ At(p, "approveJoinRequest", "s1")
    /\ LET l == proc[p].lobbyId
       IN IF ~LobbyExists(l)
          THEN Throw(p, NotFoundException("Lobby not found"),
                     "approve join request")
          ELSE IF ~ServiceOwnerMatches(l, proc[p].caller)
          THEN Throw(p, ForbiddenException(
                   "Only the owner can approve join requests"),
                   "approve join request")
          ELSE IF AtCapacity(l)
          THEN Throw(p, BadRequestException(
                   "Lobby has reached maximum capacity"),
                   "approve join request")
          ELSE Goto(p, "s2")
    /\ UNCHANGED <<store, workload, gateway>>

approveJoinRequest_findRequest(p) ==
    /\ At(p, "approveJoinRequest", "s2")
    /\ IF ~findUniqueRequest(proc[p].userId, proc[p].lobbyId)
       THEN Throw(p, NotFoundException("Join request not found"),
                  "approve join request")
       ELSE Goto(p, "s3")
    /\ UNCHANGED <<store, workload, gateway>>

approveJoinRequest_findUser(p) ==
    /\ At(p, "approveJoinRequest", "s3")
    /\ IF userLobbyId[proc[p].userId] # None
       THEN Throw(p, BadRequestException("User is already in a lobby"),
                  "approve join request")
       ELSE Goto(p, "s4")
    /\ UNCHANGED <<store, workload, gateway>>

\* $transaction([user.update({lobbyId}), lobbyJoinRequest.delete]): both
\* writes commit, or the delete fails (no such row) and neither does.
approveJoinRequest_transaction_given(p, registry) ==
    /\ At(p, "approveJoinRequest", "s4")
    /\ LET u == proc[p].userId
           l == proc[p].lobbyId
       IN IF RecordToDeleteMissing(u, l)
          THEN /\ Throw(p, PrismaError("P2025"), "approve join request")
               /\ UNCHANGED <<userLobbyId, joinRequests>>
          ELSE /\ userLobbyId' = [userLobbyId EXCEPT ![u] = l]
               /\ joinRequests' = DeleteRequest(u, l)
               /\ FinishEmit(p, Ok("User has been added to the lobby"),
                    IF has(registry, u)
                    THEN {notifyUserRequestUpdate(u, l, "accepted"),
                          notifyNewMember(l, u, DisplayName(u))}
                    ELSE {})
    /\ UNCHANGED <<lobby, userRole, workload, gateway>>
\* The step with the gateway's registry as it is.
approveJoinRequest_transaction(p) == approveJoinRequest_transaction_given(p, connectedUsers)

\* ------------------------------------------------------ rejectJoinRequest
rejectJoinRequest_getLobby(p) ==
    /\ At(p, "rejectJoinRequest", "s1")
    /\ LET l == proc[p].lobbyId
       IN IF ~LobbyExists(l)
          THEN Throw(p, NotFoundException("Lobby not found"),
                     "reject join request")
          ELSE IF ~ServiceOwnerMatches(l, proc[p].caller)
          THEN Throw(p, ForbiddenException(
                   "Only the owner can reject join requests"),
                   "reject join request")
          ELSE Goto(p, "s2")
    /\ UNCHANGED <<store, workload, gateway>>

rejectJoinRequest_findRequest(p) ==
    /\ At(p, "rejectJoinRequest", "s2")
    /\ IF ~findUniqueRequest(proc[p].userId, proc[p].lobbyId)
       THEN Throw(p, NotFoundException("Join request not found"),
                  "reject join request")
       ELSE Goto(p, "s3")
    /\ UNCHANGED <<store, workload, gateway>>

rejectJoinRequest_delete_given(p, registry) ==
    /\ At(p, "rejectJoinRequest", "s3")
    /\ LET u == proc[p].userId
           l == proc[p].lobbyId
       IN IF RecordToDeleteMissing(u, l)
          THEN /\ Throw(p, PrismaError("P2025"), "reject join request")
               /\ UNCHANGED joinRequests
          ELSE /\ joinRequests' = DeleteRequest(u, l)
               /\ FinishEmit(p, Ok("Join request has been rejected"),
                    IF has(registry, u)
                    THEN {notifyUserRequestUpdate(u, l, "rejected")}
                    ELSE {})
    /\ UNCHANGED <<lobby, userLobbyId, userRole, workload, gateway>>
\* The step with the gateway's registry as it is.
rejectJoinRequest_delete(p) == rejectJoinRequest_delete_given(p, connectedUsers)

\* ----------------------------------------------------- getPendingRequests
getPendingRequests_getLobby(p) ==
    /\ At(p, "getPendingRequests", "s1")
    /\ LET l == proc[p].lobbyId
       IN IF ~LobbyExists(l)
          THEN Throw(p, NotFoundException("Lobby not found"),
                     "retrieve pending requests")
          ELSE IF ~ServiceOwnerMatches(l, proc[p].caller)
          THEN Throw(p, ForbiddenException(
                   "Only the owner can view pending requests"),
                   "retrieve pending requests")
          ELSE Goto(p, "s2")
    /\ UNCHANGED <<store, workload, gateway>>

getPendingRequests_findMany(p) ==
    /\ At(p, "getPendingRequests", "s2")
    /\ Finish(p, Ok("pending requests"))
    /\ UNCHANGED <<store, workload, gateway>>

\* ------------------------------------------------------ getMyLobby / getLobby
\* lobby.findUnique({include: {owner, members}}): the row as returned
LobbyView(l) ==
    [kind |-> "OK", message |-> "lobby", id |-> l,
     owner |-> lobby[l].ownerId, members |-> Members(l)]
\* What getMyLobby returns or throws for a caller whose user.memberLobby
\* is memberLobby.
myLobby(memberLobby) ==
    IF memberLobby = None
    THEN handleServiceError(NotFoundException("You are not part of a lobby"),
                            "retrieve your lobby")
    ELSE IF ~LobbyExists(memberLobby)
    THEN handleServiceError(NotFoundException("Lobby not found"),
                            "retrieve your lobby")
    ELSE LobbyView(memberLobby)

getMyLobby(p) ==
    /\ At(p, "getMyLobby", "s1")
    /\ Finish(p, myLobby(proc[p].memberLobby))
    /\ UNCHANGED <<store, workload, gateway>>

getLobby(p) ==
    /\ At(p, "getLobby", "s1")
    /\ LET l == proc[p].lobbyId
       IN IF ~LobbyExists(l)
          THEN Throw(p, NotFoundException("Lobby not found"), "retrieve lobby")
          ELSE IF PrivateAndNotMember(l, proc[p].memberLobby)
          THEN Throw(p, ForbiddenException(
                   "Only members can access this private lobby"),
                   "retrieve lobby")
          ELSE Finish(p, LobbyView(l))
    /\ UNCHANGED <<store, workload, gateway>>

\* -------------------------------------------------- updateLobbyVisibility
updateLobbyVisibility_find(p) ==
    /\ At(p, "updateLobbyVisibility", "s1")
    /\ LET l == proc[p].lobbyId
       IN IF ~LobbyExists(l)
          THEN Throw(p, NotFoundException("Lobby not found"),
                     "update lobby visibility")
          ELSE IF ~ServiceOwnerMatches(l, proc[p].caller)
          THEN Throw(p, ForbiddenException(
                   "Only the owner can update visibility"),
                   "update lobby visibility")
          ELSE Goto(p, "s2")
    /\ UNCHANGED <<store, workload, gateway>>

\* An update whose where clause matches every row.
updateManyVisibility(l, visibility) ==
    [x \in DOMAIN lobby |-> [lobby[x] EXCEPT !.visibility = visibility]]
\* lobby.update({where: {id}, data: {visibility}})
updateVisibility(l, visibility) ==
    [lobby EXCEPT ![l].visibility = visibility]

updateLobbyVisibility_update(p) ==
    /\ At(p, "updateLobbyVisibility", "s2")
    /\ lobby' = updateVisibility(proc[p].lobbyId, proc[p].visibility)
    /\ FinishEmit(p, Ok("visibility updated"),
          {notifyVisibilityChange(proc[p].lobbyId, proc[p].visibility)})
    /\ UNCHANGED <<userLobbyId, userRole, joinRequests, workload, gateway>>

\* -------------------------------------------------------------- leaveLobby
leaveLobby_given(p, registry) ==
    /\ At(p, "leaveLobby", "s1")
    /\ LET u == proc[p].caller
       IN IF proc[p].memberLobby = None
          THEN /\ Throw(p, BadRequestException(
                      "You are not part of any lobby"), "leave lobby")
               /\ UNCHANGED <<userLobbyId, userRole>>
          ELSE /\ userLobbyId' = [userLobbyId EXCEPT ![u] = None]
               /\ userRole' = [userRole EXCEPT ![u] = "MEMBER"]
               /\ FinishEmit(p, Ok("You have left the lobby"),
                    IF has(registry, u)
                    THEN {notifyMemberLeft(proc[p].memberLobby, u,
                                           DisplayName(u))}
                    ELSE {})
    /\ UNCHANGED <<lobby, joinRequests, workload, gateway>>
\* The step with the gateway's registry as it is.
leaveLobby(p) == leaveLobby_given(p, connectedUsers)

\* ------------------------------------------------------------ removeMember
removeMember_getLobby(p) ==
    /\ At(p, "removeMember", "s1")
    /\ LET l == proc[p].lobbyId
       IN IF ~LobbyExists(l)
          THEN Throw(p, NotFoundException("Lobby not found"), "remove member")
          ELSE IF ~ServiceOwnerMatches(l, proc[p].caller)
          THEN Throw(p, ForbiddenException(
                   "Only the owner can remove members"), "remove member")
          ELSE IF proc[p].userId = proc[p].caller
          THEN Throw(p, BadRequestException(
                   "Owner cannot remove themselves"), "remove member")
          ELSE Goto(p, "s2")
    /\ UNCHANGED <<store, workload, gateway>>

removeMember_findUser(p) ==
    /\ At(p, "removeMember", "s2")
    /\ IF userLobbyId[proc[p].userId] # proc[p].lobbyId
       THEN Throw(p, BadRequestException(
                "User is not a member of this lobby"), "remove member")
       ELSE Goto(p, "s3")
    /\ UNCHANGED <<store, workload, gateway>>

removeMember_update_given(p, registry) ==
    /\ At(p, "removeMember", "s3")
    /\ userLobbyId' = [userLobbyId EXCEPT ![proc[p].userId] = None]
    /\ userRole' = [userRole EXCEPT ![proc[p].userId] = "MEMBER"]
    /\ FinishEmit(p, Ok("Member has been removed from the lobby"),
          IF has(registry, proc[p].userId)
          THEN {notifyUserRequestUpdate(proc[p].userId, proc[p].lobbyId,
                                        "kicked")}
          ELSE {})
    /\ UNCHANGED <<lobby, joinRequests, workload, gateway>>
\* The step with the gateway's registry as it is.
removeMember_update(p) == removeMember_update_given(p, connectedUsers)

\* ---------------------------------------------------------- failing calls
\* Errors a Prisma call rejects with for reasons outside the data: the
\* database cannot be reached, the query engine fails.
UnexpectedErrors ==
    {PrismaError("P1001"),
     [kind |-> "Error", message |-> "Can't reach database server"]}

\* p is about to make a Prisma call: every step is one, except the steps
\* that throw on the caller's user row before any call.
AtPrismaCall(p) ==
    /\ proc[p].pc \notin {"idle", "done"}
    /\ proc[p].op = "createLobby" /\ proc[p].pc = "s1"
          => proc[p].memberLobby = None
    /\ proc[p].op \in {"getMyLobby", "leaveLobby"}
          => proc[p].memberLobby # None

\* The second argument of handleServiceError in the catch block that takes
\* an error of p's current call: getLobbyById has its own.
CatchContext(op, pc) ==
    IF \/ op \in {"cancelJoinRequest", "approveJoinRequest",
                  "rejectJoinRequest", "getPendingRequests", "removeMember"}
          /\ pc = "s1"
       \/ op = "createJoinRequest" /\ pc = "s2"
       \/ op = "getLobby"
    THEN "retrieve lobby"
    ELSE CASE op = "createLobby" -> "create lobby"
           [] op = "createJoinRequest" -> "create join request"
           [] op = "cancelJoinRequest" -> "cancel join request"
           [] op = "approveJoinRequest" -> "approve join request"
           [] op = "rejectJoinRequest" -> "reject join request"
           [] op = "getPendingRequests" -> "retrieve pending requests"
           [] op = "getMyLobby" -> "retrieve your lobby"
           [] op = "updateLobbyVisibility" -> "update lobby visibility"
           [] op = "leaveLobby" -> "leave lobby"
           [] op = "removeMember" -> "remove member"

\* getPendingRequests returns the promise of findMany without awaiting it:
\* its rejection settles the method's promise and never enters the catch.
EscapesCatch(op, pc) == op = "getPendingRequests" /\ pc = "s2"

\* The Prisma call p is making rejects; nothing is written.
prismaRejects(p) ==
    /\ AtPrismaCall(p)
    /\ \E error \in UnexpectedErrors :
        IF EscapesCatch(proc[p].op, proc[p].pc)
        THEN Finish(p, error)
        ELSE Throw(p, error, CatchContext(proc[p].op, proc[p].pc))
    /\ UNCHANGED <<store, workload, gateway>>

\* ----------------------------------------------------------- specifications
createLobby(p) == createLobby_create(p) \/ createLobby_update(p)
createJoinRequest(p) ==
    \/ createJoinRequest_findFirst(p)
    \/ createJoinRequest_getLobby(p)
    \/ createJoinRequest_findUnique(p)
    \/ createJoinRequest_create(p)
cancelJoinRequest(p) ==
    cancelJoinRequest_getLobby(p) \/ cancelJoinRequest_delete(p)
approveJoinRequest(p) ==
    \/ approveJoinRequest_getLobby(p)
    \/ approveJoinRequest_findRequest(p)
    \/ approveJoinRequest_findUser(p)
    \/ approveJoinRequest_transaction(p)
rejectJoinRequest(p) ==
    \/ rejectJoinRequest_getLobby(p)
    \/ rejectJoinRequest_findRequest(p)
    \/ rejectJoinRequest_delete(p)
getPendingRequests(p) ==
    getPendingRequests_getLobby(p) \/ getPendingRequests_findMany(p)
updateLobbyVisibility(p) ==
    updateLobbyVisibility_find(p) \/ updateLobbyVisibility_update(p)
removeMember(p) ==
    \/ removeMember_getLobby(p)
    \/ removeMember_findUser(p)
    \/ removeMember_update(p)

\* The join-request lifecycle on one lobby.
Init == InitStore /\ workload = JoinWorkload
Next ==
    \E p \in Procs :
        \/ request(p)
        \/ createLobby(p)
        \/ createJoinRequest(p)
        \/ cancelJoinRequest(p)
        \/ approveJoinRequest(p)
        \/ rejectJoinRequest(p)
        \/ respond(p)
Spec == Init /\ [][Next]_vars

\* The owner-only routes.
InitOwner == InitStore /\ workload = OwnerWorkload
NextOwner ==
    \E p \in Procs :
        \/ request(p)
        \/ createLobby(p)
        \/ createJoinRequest(p)
        \/ approveJoinRequest(p)
        \/ rejectJoinRequest(p)
        \/ getPendingRequests(p)
        \/ updateLobbyVisibility(p)
        \/ removeMember(p)
        \/ respond(p)
SpecOwner == InitOwner /\ [][NextOwner]_vars

\* Join requests with two lobbies to choose from.
InitTwoLobbies == InitStore /\ workload = TwoLobbiesWorkload
NextTwoLobbies ==
    \E p \in Procs :
        \/ request(p)
        \/ createLobby(p)
        \/ createJoinRequest(p)
        \/ respond(p)
SpecTwoLobbies == InitTwoLobbies /\ [][NextTwoLobbies]_vars

\* Creating, joining and leaving with two lobbies.
InitAffiliation == InitStore /\ workload = AffiliationWorkload
NextAffiliation ==
    \E p \in Procs :
        \/ request(p)
        \/ createLobby(p)
        \/ createJoinRequest(p)
        \/ approveJoinRequest(p)
        \/ leaveLobby(p)
        \/ respond(p)
SpecAffiliation == InitAffiliation /\ [][NextAffiliation]_vars

\* Reading a lobby while members come and go.
InitRead == InitStore /\ workload = ReadWorkload
NextRead ==
    \E p \in Procs :
        \/ request(p)
        \/ createLobby(p)
        \/ createJoinRequest(p)
        \/ approveJoinRequest(p)
        \/ leaveLobby(p)
        \/ getLobby(p)
        \/ getMyLobby(p)
        \/ respond(p)
SpecRead == InitRead /\ [][NextRead]_vars

\* Connections only: the registry and the rooms.
InitRegistry == InitStore /\ workload = RegistryWorkload
NextRegistry ==
    \E s \in Sockets :
        \/ handleConnection_extractToken(s)
        \/ handleConnection_verify(s)
        \/ handleConnection_join(s)
        \/ handleDisconnect(s)
SpecRegistry == InitRegistry /\ [][NextRegistry]_vars

\* Connections that arrive together and stay.
InitConnects == InitStore /\ workload = RegistryWorkload
NextConnects ==
    \E s \in Sockets :
        \/ handleConnection_extractToken(s)
        \/ handleConnection_verify(s)
        \/ handleConnection_join(s)
SpecConnects == InitConnects /\ [][NextConnects]_vars

\* The notifying routes while clients connect and disconnect.
InitEvents == InitStore /\ workload = EventsWorkload
NextEvents ==
    \/ \E p \in Procs :
        \/ request(p)
        \/ createLobby(p)
        \/ createJoinRequest(p)
        \/ approveJoinRequest(p)
        \/ rejectJoinRequest(p)
        \/ removeMember(p)
        \/ leaveLobby(p)
        \/ respond(p)
    \/ \E s \in Sockets :
        \/ handleConnection_extractToken(s)
        \/ handleConnection_verify(s)
        \/ handleConnection_join(s)
        \/ handleDisconnect(s)
SpecEvents == InitEvents /\ [][NextEvents]_vars

\* Join requests while the owner and the members connect.
InitSessions == InitStore /\ workload = SessionsWorkload
NextSessions ==
    \/ \E p \in Procs :
        \/ request(p)
        \/ createLobby(p)
        \/ createJoinRequest(p)
        \/ approveJoinRequest(p)
        \/ respond(p)
    \/ \E s \in Sockets :
        \/ handleConnection_extractToken(s)
        \/ handleConnection_verify(s)
        \/ handleConnection_join(s)
SpecSessions == InitSessions /\ [][NextSessions]_vars

\* Rejections while the requester connects, reconnects and disconnects.
InitReconnect == InitStore /\ workload = ReconnectWorkload
NextReconnect ==
    \/ \E p \in Procs :
        \/ request(p)
        \/ createLobby(p)
        \/ createJoinRequest(p)
        \/ rejectJoinRequest(p)
        \/ respond(p)
    \/ \E s \in Sockets :
        \/ handleConnection_extractToken(s)
        \/ handleConnection_verify(s)
        \/ handleConnection_join(s)
        \/ handleDisconnect(s)
SpecReconnect == InitReconnect /\ [][NextReconnect]_vars

\* The same steps with a connection that presents a token of AuthService.
InitIssued == InitStore /\ workload = IssuedWorkload
SpecIssued == InitIssued /\ [][NextReconnect]_vars

\* Client messages on authenticated connections.
InitMessages == InitStore /\ workload = MessagesWorkload
NextMessages ==
    \E s \in Sockets :
        \/ handleConnection_extractToken(s)
        \/ handleConnection_verify(s)
        \/ handleConnection_join(s)
        \/ handleDisconnect(s)
        \/ handleJoinRequest(s)
        \/ handleRequestResponse(s)
        \/ handleRejectRequest(s)
SpecMessages == InitMessages /\ [][NextMessages]_vars

\* Every route over a database whose calls may reject.
InitFaults == InitStore /\ workload = FaultsWorkload
NextFaults ==
    \E p \in Procs :
        \/ request(p)
        \/ createLobby(p)
        \/ createJoinRequest(p)
        \/ cancelJoinRequest(p)
        \/ approveJoinRequest(p)
        \/ rejectJoinRequest(p)
        \/ getPendingRequests(p)
        \/ getMyLobby(p)
        \/ getLobby(p)
        \/ updateLobbyVisibility(p)
        \/ leaveLobby(p)
        \/ removeMember(p)
        \/ prismaRejects(p)
        \/ respond(p)
SpecFaults == InitFaults /\ [][NextFaults]_vars

\* Every route, one request at a time.
InitFrame == InitStore /\ workload = FrameWorkload
NextFrame ==
    \E p \in Procs :
        \/ request(p)
        \/ createLobby(p)
        \/ createJoinRequest(p)
        \/ cancelJoinRequest(p)
        \/ approveJoinRequest(p)
        \/ rejectJoinRequest(p)
        \/ getPendingRequests(p)
        \/ getMyLobby(p)
        \/ getLobby(p)
        \/ updateLobbyVisibility(p)
        \/ leaveLobby(p)
        \/ removeMember(p)
        \/ respond(p)
SpecFrame == InitFrame /\ [][NextFrame]_vars

\* The notifying routes while one client connects and disconnects.
InitDelivery == InitStore /\ workload = DeliveryWorkload
NextDelivery ==
    \/ \E p \in Procs :
        \/ request(p)
        \/ createLobby(p)
        \/ createJoinRequest(p)
        \/ cancelJoinRequest(p)
        \/ approveJoinRequest(p)
        \/ rejectJoinRequest(p)
        \/ leaveLobby(p)
        \/ removeMember(p)
        \/ respond(p)
    \/ \E s \in Sockets :
        \/ handleConnection_extractToken(s)
        \/ handleConnection_verify(s)
        \/ handleConnection_join(s)
        \/ handleDisconnect(s)
SpecDelivery == InitDelivery /\ [][NextDelivery]_vars

\* The writing routes, interleaved.
InitLifecycle == InitStore /\ workload = LifecycleWorkload
NextLifecycle ==
    \E p \in Procs :
        \/ request(p)
        \/ createLobby(p)
        \/ createJoinRequest(p)
        \/ cancelJoinRequest(p)
        \/ approveJoinRequest(p)
        \/ rejectJoinRequest(p)
        \/ updateLobbyVisibility(p)
        \/ leaveLobby(p)
        \/ removeMember(p)
        \/ respond(p)
SpecLifecycle == InitLifecycle /\ [][NextLifecycle]_vars

\* ------------------------------------------------------------------ claims
\* p's service call returns or throws in this step.
Completes(p) == proc[p].pc \notin {"idle", "done"} /\ proc'[p].pc = "done"
\* p's request is rejected by the guard in this step.
Refused(p) == proc[p].pc = "idle" /\ proc'[p].pc = "done"
Failed(r) == r.kind \in {"NotFound", "Forbidden", "BadRequest"}
RECURSIVE RowsIn(_, _)
RowsIn(u, ls) ==
    IF ls = {} THEN 0
    ELSE LET l == CHOOSE x \in ls : TRUE
         IN joinRequests[<<u, l>>] + RowsIn(u, ls \ {l})
\* The number of LobbyJoinRequest rows of user u, over all lobbies.
RowsOfUser(u) == RowsIn(u, Lobbies)
CapacityError == BadRequestException("Lobby has reached maximum capacity")
RequestNotFound == NotFoundException("Join request not found")

\* C1: for every lobby, the number of users whose lobbyId references it is
\* at most the lobby's capacity, also when approvals of different requesters
\* interleave.
MembersWithinCapacity ==
    \A l \in DOMAIN lobby : Cardinality(Members(l)) <= lobby[l].capacity

\* C2: every user has at most one LobbyJoinRequest row over all lobbies,
\* also when the user's createJoinRequest calls to two lobbies interleave.
OneRequestPerUser == \A u \in Users : RowsOfUser(u) <= 1

\* C3: a user who owns a lobby and has a member-lobby reference has both
\* on the same lobby.
NoTwoAffiliations ==
    \A u \in Users : \A l \in DOMAIN lobby :
        (lobby[l].ownerId = u /\ userLobbyId[u] # None) => userLobbyId[u] = l

\* C4: while a lobby exists its owner's member-lobby reference is that lobby.
OwnerIsMember == \A l \in DOMAIN lobby : userLobbyId[lobby[l].ownerId] = l

\* C5: when approveJoinRequest, called by the owner, reads a lobby whose
\* member count is at least its capacity, it fails with the capacity error
\* and the step changes no row: the request stays pending and every
\* membership is as before.
ApproveAtCapacityFails ==
    [][\A p \in Procs :
        (/\ At(p, "approveJoinRequest", "s1")
         /\ proc'[p] # proc[p]
         /\ LobbyExists(proc[p].lobbyId)
         /\ lobby[proc[p].lobbyId].ownerId = proc[p].caller
         /\ Cardinality(Members(proc[p].lobbyId))
                >= lobby[proc[p].lobbyId].capacity)
        => (/\ proc'[p].pc = "done"
            /\ proc'[p].result = CapacityError
            /\ UNCHANGED store)]_vars

\* C5 witness: an approval failed with the capacity error on a full lobby
\* and the request it was for is still pending.
ApproveAtCapacityWitness ==
    \E p \in Procs :
        /\ At(p, "approveJoinRequest", "done")
        /\ proc[p].result = CapacityError
        /\ Cardinality(Members(proc[p].lobbyId))
               >= lobby[proc[p].lobbyId].capacity
        /\ joinRequests[<<proc[p].userId, proc[p].lobbyId>>] = 1

NonOwnerForbidden ==
    /\ [](\A p \in Procs :
            (/\ proc[p].op \in OwnerOnlyOps
             /\ LobbyExists(proc[p].lobbyId)
             /\ lobby[proc[p].lobbyId].ownerId # proc[p].caller)
            => (proc[p].pc = "done" /\ proc[p].result.kind = "Forbidden"))
    /\ [][\A p \in Procs :
            (Refused(p) /\ proc'[p].op \in OwnerOnlyOps) => UNCHANGED store]_vars

\* C7 witness: a member of the lobby who is not its owner was refused.
NonOwnerForbiddenWitness ==
    \E p \in Procs :
        /\ proc[p].op \in OwnerOnlyOps
        /\ proc[p].pc = "done"
        /\ proc[p].result.kind = "Forbidden"
        /\ LobbyExists(proc[p].lobbyId)
        /\ userLobbyId[proc[p].caller] = proc[p].lobbyId
        /\ lobby[proc[p].lobbyId].ownerId # proc[p].caller

\* C8: createLobby and createJoinRequest called by a user who owns or is a
\* member of a lobby at the time of the call fail and create no lobby and no
\* join request.
AffiliatedCannotCreate ==
    [][\A p \in Procs :
        (/\ Completes(p)
         /\ proc[p].op \in {"createLobby", "createJoinRequest"}
         /\ (proc[p].memberLobby # None \/ proc[p].ownedLobby # None))
        => (/\ Failed(proc'[p].result)
            /\ UNCHANGED <<lobby, joinRequests>>)]_vars

\* C9: there is at most one LobbyJoinRequest row per (userId, lobbyId), and a
\* createJoinRequest that completes while the pair has a row fails and
\* creates nothing.
OneRequestPerPair ==
    /\ [](\A k \in Users \X Lobbies : joinRequests[k] <= 1)
    /\ [][\A p \in Procs :
            (/\ Completes(p)
             /\ proc[p].op = "createJoinRequest"
             /\ joinRequests[<<proc[p].caller, proc[p].lobbyId>>] >= 1)
            => (/\ proc'[p].result.kind = "BadRequest"
                /\ UNCHANGED joinRequests)]_vars

\* C9 witness: of two interleaved createJoinRequest calls for one pair, the
\* second insert was refused by the store and one row exists.
OneRequestPerPairWitness ==
    \E p \in Procs :
        /\ At(p, "createJoinRequest", "done")
        /\ proc[p].result = BadRequestException("unexpected: create join request")
        /\ joinRequests[<<proc[p].caller, proc[p].lobbyId>>] = 1

\* C10: getLobby fails with NotFound on an absent lobby, returns a PUBLIC
\* lobby to every caller, returns a PRIVATE lobby to its owner and to its
\* members, and fails with Forbidden for every other caller.
GetLobbyAccess ==
    [][\A p \in Procs :
        (At(p, "getLobby", "s1") /\ proc'[p] # proc[p])
        => LET l == proc[p].lobbyId
           IN proc'[p].result.kind =
                IF ~LobbyExists(l) THEN "NotFound"
                ELSE IF lobby[l].visibility = "PUBLIC" THEN "OK"
                ELSE IF proc[p].ownedLobby = l \/ proc[p].memberLobby = l
                THEN "OK"
                ELSE "Forbidden"]_vars

\* C11: when createLobby succeeds for user U, the lobby it created has owner
\* U and members exactly {U}, U's role is OWNER, and getMyLobby called by U
\* next returns that lobby with that owner and those members.
CreateThenGetMyLobby ==
    [][\A p \in Procs :
        (/\ Completes(p)
         /\ proc[p].op = "createLobby"
         /\ proc'[p].result.kind = "OK")
        => LET u == proc[p].caller
               l == proc[p].newLobby
           IN /\ proc[p].memberLobby = None /\ proc[p].ownedLobby = None
              /\ lobby'[l].ownerId = u
              /\ userRole'[u] = "OWNER"
              /\ {x \in Users : userLobbyId'[x] = l} = {u}
              /\ (myLobby(userLobbyId[u]))' =
                    [kind |-> "OK", message |-> "lobby", id |-> l,
                     owner |-> u, members |-> {u}]]_vars

\* C11 witness: getMyLobby, called by the owner of a lobby just created,
\* returned the lobby with the caller as owner and only member.
CreateThenGetMyLobbyWitness ==
    \E p \in Procs :
        /\ At(p, "getMyLobby", "done")
        /\ proc[p].result.kind = "OK"
        /\ proc[p].result.owner = proc[p].caller
        /\ proc[p].result.members = {proc[p].caller}
        /\ userRole[proc[p].caller] = "OWNER"

\* The live authenticated sessions of user u.
LiveSessions(u) == {s \in Sockets : socket[s].open /\ socket[s].user = u}
\* The events of the request p that has just completed.
Emitted(p) == proc'[p].events

\* C12: a rejectJoinRequest that succeeds leaves no JoinRequest for the
\* pair; if the requester has a live session, a request-updated event with
\* status rejected and cooldown "6h" goes to the requester's user room; if
\* not, the call succeeds all the same and no session receives anything.
\* No request-updated event with status accepted or kicked has a cooldown.
RejectNotifiesRequester ==
    /\ [](\A p \in Procs : \A e \in proc[p].events :
            (e.name = "request-updated" /\ e.status \in {"accepted", "kicked"})
            => "cooldown" \notin DOMAIN e)
    /\ [][\A p \in Procs :
            (/\ Completes(p)
             /\ proc[p].op = "rejectJoinRequest"
             /\ proc'[p].result.kind = "OK")
            => /\ joinRequests'[<<proc[p].userId, proc[p].lobbyId>>] = 0
               /\ IF LiveSessions(proc[p].userId) # {}
                  THEN \E e \in Emitted(p) :
                         /\ e.name = "request-updated"
                         /\ e.room = UserRoom(proc[p].userId)
                         /\ e.lobbyId = proc[p].lobbyId
                         /\ e.status = "rejected"
                         /\ e.cooldown = "6h"
                  ELSE \A e \in Emitted(p) : e.to = {}]_vars

\* verifyAsync settles for socket s in this step and rejects the token.
VerificationFails(s) ==
    /\ socket[s].pc = "verifying"
    /\ socket'[s].pc = "refused"
\* verifyAsync settles for socket s in this step and resolves.
VerificationSucceeds(s) ==
    /\ socket[s].pc = "verifying"
    /\ socket'[s].pc = "joinedUser"
\* The transport connection of socket s ends in this step.
Closes(s) == socket[s].open /\ ~socket'[s].open
Registered == {u \in Users : connectedUsers[u] # None}

\* C13: a connection without a token, or whose token fails verification, is
\* never in the registry and never gets a user; the step that refuses it
\* closes it and leaves the registry as it was.
RefusedNeverRegistered ==
    /\ [](\A s \in Sockets :
            socket[s].token.kind \in {"missing", "invalid"}
            => /\ \A u \in Users : connectedUsers[u] # s
               /\ socket[s].user = None
               /\ socket[s].pc \in {"verifying", "refused"}
               /\ socket[s].token.kind = "missing" => socket[s].pc = "refused"
               /\ socket[s].pc = "refused" => ~socket[s].open)
    /\ [][\A s \in Sockets :
            (socket'[s] # socket[s] /\ socket'[s].pc = "refused")
            => UNCHANGED connectedUsers]_vars

\* C13 witness: a connection whose token failed verification was closed
\* while another user is registered.
RefusedNeverRegisteredWitness ==
    \E s \in Sockets :
        /\ socket[s].pc = "refused"
        /\ socket[s].token.kind = "invalid"
        /\ ~socket[s].open
        /\ Registered # {}
        /\ ~isUserConnected(socket[s].token.id)

\* The text of the error verifyAsync rejects with.
VerifierErrorText == "jwt malformed"

\* C14: when verification of the token fails, the client gets an exception
\* event with the message "Internal WebSocket error", and nothing a client
\* gets carries the verifier's error text.
AuthFailureSendsGenericException ==
    /\ [](\A s \in Sockets : \A m \in socket[s].received :
            m.message # VerifierErrorText)
    /\ [][\A s \in Sockets :
            VerificationFails(s)
            => \E m \in socket'[s].received :
                  /\ m.name = "exception"
                  /\ m.message = "Internal WebSocket error"]_vars

ApproveEmitsBoth ==
    [][\A p \in Procs :
        (/\ Completes(p)
         /\ proc[p].op = "approveJoinRequest"
         /\ proc'[p].result.kind = "OK")
        => /\ \E e \in Emitted(p) :
                /\ e.name = "request-updated"
                /\ e.room = UserRoom(proc[p].userId)
                /\ e.status = "accepted"
           /\ \E e \in Emitted(p) :
                /\ e.name = "member-joined"
                /\ e.room = LobbyRoom(proc[p].lobbyId)
                /\ e.userId = proc[p].userId]_vars

\* C18: a removeMember that succeeds clears the member's lobby reference,
\* resets the role to MEMBER and emits request-updated with status kicked
\* to the member's room and member-left to the lobby's room; called by the
\* owner for the owner or for a user who is not a member, it fails with
\* BadRequest and changes nothing.
RemoveMemberEmitsKickedAndLeft ==
    [][\A p \in Procs :
        (Completes(p) /\ proc[p].op = "removeMember")
        => LET u == proc[p].userId
               l == proc[p].lobbyId
           IN /\ proc'[p].result.kind = "OK"
                 => /\ userLobbyId'[u] = None
                    /\ userRole'[u] = "MEMBER"
                    /\ \E e \in Emitted(p) :
                         /\ e.name = "request-updated"
                         /\ e.room = UserRoom(u)
                         /\ e.status = "kicked"
                    /\ \E e \in Emitted(p) :
                         /\ e.name = "member-left"
                         /\ e.room = LobbyRoom(l)
                         /\ e.userId = u
              /\ (/\ LobbyExists(l)
                  /\ lobby[l].ownerId = proc[p].caller
                  /\ (u = lobby[l].ownerId \/ userLobbyId[u] # l))
                 => /\ proc'[p].result.kind = "BadRequest"
                    /\ UNCHANGED store]_vars

\* C19: leaveLobby by a user with no member lobby fails with BadRequest and
\* changes nothing; otherwise it clears the reference, resets the role to
\* MEMBER and emits member-left to the lobby's room, whether or not the
\* leaver has a live session.
LeaveEmitsMemberLeft ==
    [][\A p \in Procs :
        (Completes(p) /\ proc[p].op = "leaveLobby")
        => LET u == proc[p].caller
               l == proc[p].memberLobby
           IN IF l = None
              THEN proc'[p].result.kind = "BadRequest" /\ UNCHANGED store
              ELSE /\ userLobbyId'[u] = None
                   /\ userRole'[u] = "MEMBER"
                   /\ \E e \in Emitted(p) :
                        /\ e.name = "member-left"
                        /\ e.room = LobbyRoom(l)
                        /\ e.userId = u]_vars

\* The sessions of user u whose connection is complete and whose token
\* names l as the lobby u owns.
OwnerSessions(u, l) ==
    {s \in LiveSessions(u) :
        socket[s].pc = "connected" /\ socket[s].token.lobbyId = l}

\* C20: a createJoinRequest that succeeds persists exactly one JoinRequest
\* for the pair and emits join-request with the requester's id and username
\* so that the owner's sessions receive it and no session of anyone else,
\* a member of the lobby included, does.
JoinRequestReachesOwnerOnly ==
    [][\A p \in Procs :
        (/\ Completes(p)
         /\ proc[p].op = "createJoinRequest"
         /\ proc'[p].result.kind = "OK")
        => LET u == proc[p].caller
               l == proc[p].lobbyId
               o == lobby[l].ownerId
           IN /\ joinRequests[<<u, l>>] = 0
              /\ joinRequests'[<<u, l>>] = 1
              /\ OwnerSessions(o, l) # {}
                 => \E e \in Emitted(p) :
                      /\ e.name = "join-request"
                      /\ e.userId = u
                      /\ e.username = DisplayName(u)
                      /\ OwnerSessions(o, l) \subseteq e.to
              /\ \A e \in Emitted(p) : \A s \in e.to :
                    e.name = "join-request" => socket[s].user = o]_vars

\* C20, the members' part alone: no session of a member of the lobby who is
\* not its owner receives join-request.
JoinRequestSkipsMembers ==
    [][\A p \in Procs :
        (Completes(p) /\ proc[p].op = "createJoinRequest")
        => \A e \in Emitted(p) : \A s \in e.to :
              (/\ e.name = "join-request"
               /\ socket[s].user # None
               /\ userLobbyId[socket[s].user] = proc[p].lobbyId)
              => socket[s].user = lobby[proc[p].lobbyId].ownerId]_vars

\* C21: cancelJoinRequest on an existing lobby deletes the caller's
\* JoinRequest when there is one, and when there is none (never sent, or
\* already cancelled, approved or rejected) it returns without error and
\* leaves the store as it is.
CancelToleratesMissing ==
    [][\A p \in Procs :
        (/\ Completes(p)
         /\ proc[p].op = "cancelJoinRequest"
         /\ LobbyExists(proc[p].lobbyId))
        => LET k == <<proc[p].caller, proc[p].lobbyId>>
           IN /\ proc'[p].result.kind = "OK"
              /\ joinRequests'[k] = 0
              /\ joinRequests[k] = 0 => UNCHANGED store]_vars

\* p's call returns normally in this step.
Succeeds(p) == Completes(p) /\ proc'[p].result.kind = "OK"

\* C22: the JoinRequest of a pair comes to exist only in the step in which
\* a createJoinRequest of that user for that lobby succeeds, and ceases to
\* exist only in the step in which an approveJoinRequest or
\* rejectJoinRequest for the pair or a cancelJoinRequest by the user
\* succeeds; every other step of every operation leaves it as it is.
RequestLifecycle ==
    [][\A u \in Users, l \in Lobbies :
        LET k == <<u, l>>
        IN /\ joinRequests'[k] > joinRequests[k]
              => /\ joinRequests[k] = 0
                 /\ joinRequests'[k] = 1
                 /\ \E p \in Procs :
                      /\ Succeeds(p)
                      /\ proc[p].op = "createJoinRequest"
                      /\ proc[p].caller = u
                      /\ proc[p].lobbyId = l
           /\ joinRequests'[k] < joinRequests[k]
              => /\ joinRequests'[k] = 0
                 /\ \E p \in Procs :
                      /\ Succeeds(p)
                      /\ proc[p].lobbyId = l
                      /\ \/ /\ proc[p].op \in {"approveJoinRequest",
                                                "rejectJoinRequest"}
                            /\ proc[p].userId = u
                         \/ /\ proc[p].op = "cancelJoinRequest"
                            /\ proc[p].caller = u]_vars

\* C22 witness: a user's request was cancelled and the user's new
\* createJoinRequest for the same lobby has made it exist again.
RequestLifecycleWitness ==
    \E p, q \in Procs :
        /\ proc[p].pc = "done" /\ proc[q].pc = "done"
        /\ proc[p].op = "cancelJoinRequest" /\ proc[p].result.kind = "OK"
        /\ proc[q].op = "createJoinRequest" /\ proc[q].result.kind = "OK"
        /\ proc[p].caller = proc[q].caller
        /\ proc[p].lobbyId = proc[q].lobbyId
        /\ joinRequests[<<proc[q].caller, proc[q].lobbyId>>] = 1

\* C23: approveJoinRequest changes the store in one step only, the one in
\* which it succeeds, and that step both makes the target a member of the
\* lobby and deletes the JoinRequest of the pair; every other step of an
\* approveJoinRequest, a failing one included, leaves the store as it is,
\* so no state has the one change without the other.
ApproveIsAtomic ==
    [][\A p \in Procs :
        (proc[p].op = "approveJoinRequest" /\ proc'[p] # proc[p])
        => LET u == proc[p].userId
               k == <<proc[p].userId, proc[p].lobbyId>>
           IN IF Succeeds(p)
              THEN /\ userLobbyId[u] = None
                   /\ userLobbyId'[u] = proc[p].lobbyId
                   /\ joinRequests[k] = 1
                   /\ joinRequests'[k] = 0
              ELSE UNCHANGED store]_vars

\* C23 witness: an approval has made the target a member and the approved
\* request is gone.
ApproveIsAtomicWitness ==
    \E p \in Procs :
        /\ proc[p].pc = "done"
        /\ proc[p].op = "approveJoinRequest"
        /\ proc[p].result.kind = "OK"
        /\ userLobbyId[proc[p].userId] = proc[p].lobbyId
        /\ joinRequests[<<proc[p].userId, proc[p].lobbyId>>] = 0

\* C24: in every state, every lobby that exists has its creator as owner,
\* as member and with role OWNER.
LobbyCreatedWhole ==
    \A l \in DOMAIN lobby :
        /\ userLobbyId[lobby[l].ownerId] = l
        /\ userRole[lobby[l].ownerId] = "OWNER"

\* A handler takes a client message named name in this step.
Takes(name) == inbound' # inbound /\ inbound'.name = name
\* The owned-lobby id cached on the session that sent the message.
CachedLobbyId == socket[inbound'.socket].token.lobbyId

\* C25: a join-request message is accepted only when the owned-lobby id
\* cached on the sending session equals the message's lobbyId; from any
\* other session it is answered with an error and nothing is emitted.
JoinRequestMessageNeedsOwnLobby ==
    [][Takes("join-request")
        => IF CachedLobbyId = inbound'.lobbyId
           THEN inbound'.error = ""
           ELSE inbound'.error # "" /\ inbound'.events = {}]_vars

\* C26: a request-response or reject-request message whose lobbyId is not
\* the owned-lobby id cached on the sending session is answered with an
\* exception and emits nothing; otherwise it emits request-updated to the
\* named user's room, with the client's status for request-response and
\* with status rejected for reject-request whatever status the client sent.
ResponseMessagesNeedOwnLobby ==
    [][(Takes("request-response") \/ Takes("reject-request"))
        => IF CachedLobbyId = inbound'.lobbyId
           THEN /\ inbound'.error = ""
                /\ inbound'.events # {}
                /\ \A e \in inbound'.events :
                     /\ e.name = "request-updated"
                     /\ e.room = UserRoom(inbound'.userId)
                     /\ e.lobbyId = inbound'.lobbyId
                     /\ e.status = IF inbound'.name = "reject-request"
                                   THEN "rejected" ELSE inbound'.status
           ELSE /\ inbound'.events = {}
                /\ \E m \in socket'[inbound'.socket].received :
                     m.name = "exception" /\ m.message = inbound'.error]_vars

\* C26 witness: a reject-request that said accepted was taken from the
\* lobby's owner and the event says rejected.
ResponseMessagesWitness ==
    /\ inbound.name = "reject-request"
    /\ inbound.status = "accepted"
    /\ inbound.error = ""
    /\ \E e \in inbound.events : e.status = "rejected" /\ e.cooldown = "6h"

\* The contexts the catch blocks pass to handleServiceError.
Contexts == {CatchContext(op, pc) : op \in Ops, pc \in {"s1", "s2"}}

\* C27: handleServiceError hands a NotFound, Forbidden or BadRequest on as
\* it is and turns any other error into a BadRequest with the fixed text of
\* the context and none of the error's own text; and every call of every
\* operation ends in success or in one of these three, never with the text
\* of an error a Prisma call rejected with.
UnexpectedErrorsReplaced ==
    /\ [](\A c \in Contexts :
            /\ \A kind \in {"NotFound", "Forbidden", "BadRequest"} :
                 LET e == [kind |-> kind, message |-> "Lobby not found"]
                 IN handleServiceError(e, c) = e
            /\ \A e \in UnexpectedErrors :
                 /\ handleServiceError(e, c).kind = "BadRequest"
                 /\ handleServiceError(e, c).message = "unexpected: " \o c)
    /\ [][\A p \in Procs :
            Completes(p)
            => /\ proc'[p].result.kind
                    \in {"OK", "NotFound", "Forbidden", "BadRequest"}
               /\ \A e \in UnexpectedErrors :
                    proc'[p].result.message # e.message]_vars

\* Every content the registry can have.
Registries == [Users -> {None} \cup (1..workload.sockets)]
\* The step request p takes next inside LobbyService when the gateway's
\* registry is registry.
ServiceStep(p, registry) ==
    \/ createLobby_create(p)
    \/ createLobby_update_given(p, registry)
    \/ createJoinRequest_findFirst(p)
    \/ createJoinRequest_getLobby(p)
    \/ createJoinRequest_findUnique(p)
    \/ createJoinRequest_create_given(p, registry)
    \/ cancelJoinRequest_getLobby(p)
    \/ cancelJoinRequest_delete_given(p, registry)
    \/ approveJoinRequest_getLobby(p)
    \/ approveJoinRequest_findRequest(p)
    \/ approveJoinRequest_findUser(p)
    \/ approveJoinRequest_transaction_given(p, registry)
    \/ rejectJoinRequest_getLobby(p)
    \/ rejectJoinRequest_findRequest(p)
    \/ rejectJoinRequest_delete_given(p, registry)
    \/ getPendingRequests(p)
    \/ getMyLobby(p)
    \/ getLobby(p)
    \/ updateLobbyVisibility(p)
    \/ leaveLobby_given(p, registry)
    \/ removeMember_getLobby(p)
    \/ removeMember_findUser(p)
    \/ removeMember_update_given(p, registry)
\* The step under some content of the registry.
StepUnderAnyRegistry(p) == \E registry \in Registries : ServiceStep(p, registry)

\* C28: from every state, the next step of every operation in flight gives
\* one and the same result (success or which kind of error, or the same
\* place to continue from) and one and the same Lobby, membership, role
\* and JoinRequest state under every content of the connection registry.
StoreIgnoresRegistry ==
    \A p \in Procs :
        proc[p].pc \notin {"idle", "done"}
        => /\ Cardinality({k \in {"none", "OK", "NotFound", "Forbidden",
                                  "BadRequest"} :
                  ENABLED (StepUnderAnyRegistry(p)
                           /\ proc'[p].result.kind = k)}) <= 1
           /\ \A u \in Users :
                /\ Cardinality({v \in Lobbies \cup {None} :
                      ENABLED (StepUnderAnyRegistry(p) /\ userLobbyId'[u] = v)}) <= 1
                /\ Cardinality({r \in {"MEMBER", "OWNER"} :
                      ENABLED (StepUnderAnyRegistry(p) /\ userRole'[u] = r)}) <= 1
                /\ \A l \in Lobbies :
                     Cardinality({n \in 0..2 :
                        ENABLED (StepUnderAnyRegistry(p)
                                 /\ joinRequests'[<<u, l>>] = n)}) <= 1
           /\ \A l \in Lobbies :
                ~ /\ ENABLED (StepUnderAnyRegistry(p) /\ l \in DOMAIN lobby')
                  /\ ENABLED (StepUnderAnyRegistry(p) /\ l \notin DOMAIN lobby')
           /\ \A l \in DOMAIN lobby :
                Cardinality({v \in Visibilities :
                    ENABLED (StepUnderAnyRegistry(p) /\ l \in DOMAIN lobby'
                             /\ lobby'[l].visibility = v)}) <= 1

\* C28 witness: a rejectJoinRequest has succeeded and deleted the request
\* while the requester was not registered, so that its event was dropped.
StoreIgnoresRegistryWitness ==
    \E p \in Procs :
        /\ proc[p].pc = "done"
        /\ proc[p].op = "rejectJoinRequest"
        /\ proc[p].result.kind = "OK"
        /\ proc[p].events = {}
        /\ ~isUserConnected(proc[p].userId)
        /\ joinRequests[<<proc[p].userId, proc[p].lobbyId>>] = 0
        /\ \E u \in Users : isUserConnected(u)

\* The names of the events of the lobby namespace and the rooms they go to.
EventNames == {"join-request", "request-cancelled", "request-updated",
               "member-joined", "member-left", "visibility-changed"}
Rooms == {UserRoom(u) : u \in Users} \cup {LobbyRoom(l) : l \in Lobbies}
\* The next step of p with the registry as it is, or as it is once the
\* client of socket s has gone.
StepAroundDisconnect(p, s) ==
    \/ ServiceStep(p, connectedUsers)
    \/ ServiceStep(p, unregister(connectedUsers, socket[s]))
\* The step emits the event to the room and a session other than s is
\* there to receive it.
ReachesOthers(p, s, name, room) ==
    \E e \in proc'[p].events :
        e.name = name /\ e.room = room /\ e.to \ {s} # {}

\* C29: a disconnect changes neither the store nor any request in flight,
\* and for every request in flight and every session that may disconnect
\* before its next step, that step gives the same result and the same
\* store with and without the disconnect, and every event the step would
\* have delivered to another session is still delivered.
DisconnectLosesOnlyOwnDelivery ==
    /\ [][\A s \in Sockets : Closes(s) => UNCHANGED <<store, proc>>]_vars
    /\ [](\A p \in Procs, s \in Sockets :
            (proc[p].pc \notin {"idle", "done"} /\ socket[s].open)
            => /\ Cardinality({k \in {"none", "OK", "NotFound", "Forbidden",
                                      "BadRequest"} :
                      ENABLED (StepAroundDisconnect(p, s)
                               /\ proc'[p].result.kind = k)}) <= 1
               /\ \A u \in Users :
                    /\ Cardinality({v \in Lobbies \cup {None} :
                          ENABLED (StepAroundDisconnect(p, s)
                                   /\ userLobbyId'[u] = v)}) <= 1
                    /\ Cardinality({r \in {"MEMBER", "OWNER"} :
                          ENABLED (StepAroundDisconnect(p, s)
                                   /\ userRole'[u] = r)}) <= 1
                    /\ \A l \in Lobbies :
                         Cardinality({n \in 0..2 :
                            ENABLED (StepAroundDisconnect(p, s)
                                     /\ joinRequests'[<<u, l>>] = n)}) <= 1
               /\ \A name \in EventNames, room \in Rooms :
                    ENABLED (ServiceStep(p, connectedUsers)
                             /\ ReachesOthers(p, s, name, room))
                    => ENABLED (ServiceStep(p, unregister(connectedUsers,
                                                          socket[s]))
                                /\ ReachesOthers(p, s, name, room)))

\* The rooms a token subscribes its session to.
RoomsOfToken(token) ==
    {<<"user", token.id>>}
    \cup (IF token.lobbyId # None THEN {<<"lobby", token.lobbyId>>} ELSE {})
    \cup (IF token.memberLobbyId # None
          THEN {<<"lobby", token.memberLobbyId>>} ELSE {})

\* C30: a session whose connection has completed is in the room of its
\* user, in the room of the lobby its token names as owned, in the room of
\* the lobby its token names as member lobby, and in no other; while it
\* stays connected its rooms stay as they are, and no step of any
\* operation changes the rooms of any session.
RoomsFixedAtConnect ==
    /\ [](\A s \in Sockets :
            (socket[s].open /\ socket[s].pc = "connected")
            => socket[s].rooms = RoomsOfToken(socket[s].token))
    /\ [][\A s \in Sockets :
            /\ (socket[s].open /\ socket[s].pc = "connected" /\ socket'[s].open)
               => socket'[s].rooms = socket[s].rooms
            /\ (proc' # proc \/ store' # store)
               => socket'[s].rooms = socket[s].rooms]_vars

\* C30 witness: a user with a connected session that is in no lobby room
\* has been approved into a lobby, and the session is still in no lobby
\* room.
RoomsFixedAtConnectWitness ==
    \E s \in Sockets, p \in Procs :
        /\ socket[s].open /\ socket[s].pc = "connected"
        /\ socket[s].rooms = {UserRoom(socket[s].user)}
        /\ proc[p].pc = "done"
        /\ proc[p].op = "approveJoinRequest"
        /\ proc[p].result.kind = "OK"
        /\ proc[p].userId = socket[s].user
        /\ userLobbyId[socket[s].user] = proc[p].lobbyId

\* C31: a user is reported connected exactly when the user has a live
\* authenticated session; the end of one session of a user who holds
\* another live session leaves the user's entry as it was.
RegistryMatchesLiveSessions ==
    /\ [](\A u \in Users : isUserConnected(u) <=> LiveSessions(u) # {})
    /\ [][\A s \in Sockets :
            (Closes(s) /\ socket[s].user # None
                       /\ LiveSessions(socket[s].user) # {s})
            => connectedUsers'[socket[s].user] = connectedUsers[socket[s].user]
       ]_vars

\* The events handed to the server in this step, by a service call or by a
\* message handler.
EventsOfStep ==
    (IF inbound' # inbound THEN inbound'.events ELSE {})
    \cup UNION {IF proc'[p].events # proc[p].events THEN proc'[p].events
                ELSE {} : p \in Procs}

\* C32: a request-updated event with status accepted that reaches a session
\* of user u for lobby L comes with the commit that makes u a member of L,
\* and one with status rejected comes with the commit that deletes u's
\* JoinRequest for L, whether a route or a client message triggers it.
RequestUpdatedFollowsCommit ==
    [][\A e \in EventsOfStep :
         (e.name = "request-updated" /\ e.to # {})
         => LET u == e.room[2]
                l == e.lobbyId
            IN /\ e.status = "accepted"
                  => (userLobbyId[u] # l /\ userLobbyId'[u] = l)
               /\ e.status = "rejected"
                  => (joinRequests[<<u, l>>] > 0
                      /\ joinRequests'[<<u, l>>] = 0)]_vars

\* C33: no user who is a member or the owner of a lobby has a pending
\* JoinRequest to any lobby.
MembersHaveNoRequest ==
    \A u \in Users :
        (userLobbyId[u] # None \/ \E l \in DOMAIN lobby : lobby[l].ownerId = u)
        => RowsOfUser(u) = 0

\* C34: a user's role is OWNER exactly when the user is the owner of a
\* lobby that exists.
OwnerRoleIffOwnsLobby ==
    \A u \in Users : userRole[u] = "OWNER" <=> OwnedLobbies(u) # {}

\* C35: a call that ends in NotFound, Forbidden or BadRequest emits no
\* event and has written nothing: its last step leaves the store as it is,
\* and no earlier step of the call wrote a row (the only step that writes
\* without completing the call is the lobby.create of createLobby, which
\* records the new row's id).
FailureLeavesNoTrace ==
    [][\A p \in Procs :
         /\ (Completes(p) /\ Failed(proc'[p].result))
            => /\ proc'[p].events = {}
               /\ store' = store
               /\ proc[p].newLobby = None
         /\ (proc'[p] # proc[p] /\ ~Completes(p) /\ store' # store)
            => proc'[p].newLobby # None]_vars

\* The routes that leave every user's member lobby and role alone, and the
\* routes that change membership.
MembershipReaders ==
    {"createJoinRequest", "cancelJoinRequest", "rejectJoinRequest",
     "updateLobbyVisibility", "getPendingRequests", "getLobby", "getMyLobby"}
MembershipWriters ==
    {"createLobby", "approveJoinRequest", "leaveLobby", "removeMember"}
\* The operation whose call takes this step as request p.
OpOfStep(p) == IF proc[p].op = "none" THEN proc'[p].op ELSE proc[p].op

\* C36: no step of createJoinRequest, cancelJoinRequest, rejectJoinRequest,
\* updateLobbyVisibility, getPendingRequests, getLobby or getMyLobby changes
\* a user's member lobby or role; a step of updateLobbyVisibility changes
\* nothing but the visibility of the lobby it names; and a user's member
\* lobby changes only in a step of createLobby, approveJoinRequest,
\* leaveLobby or removeMember.
MembershipFrame ==
    [][\A p \in Procs :
         proc'[p] # proc[p]
         => /\ OpOfStep(p) \in MembershipReaders
               => (userLobbyId' = userLobbyId /\ userRole' = userRole)
            /\ OpOfStep(p) = "updateLobbyVisibility"
               => /\ joinRequests' = joinRequests
                  /\ DOMAIN lobby' = DOMAIN lobby
                  /\ \A l \in DOMAIN lobby :
                       /\ lobby'[l].ownerId = lobby[l].ownerId
                       /\ lobby'[l].capacity = lobby[l].capacity
                       /\ l # proc[p].lobbyId => lobby'[l] = lobby[l]
            /\ userLobbyId' # userLobbyId
               => OpOfStep(p) \in MembershipWriters]_vars

\* C36 witness: an updateLobbyVisibility has succeeded on a lobby, now private,
\* that has a member beside its owner, while another lobby is public.
MembershipFrameWitness ==
    \E p \in Procs, u \in Users, other \in DOMAIN lobby :
        /\ proc[p].pc = "done"
        /\ proc[p].op = "updateLobbyVisibility"
        /\ proc[p].result.kind = "OK"
        /\ lobby[proc[p].lobbyId].visibility = "PRIVATE"
        /\ other # proc[p].lobbyId
        /\ lobby[other].visibility = "PUBLIC"
        /\ userLobbyId[u] = proc[p].lobbyId
        /\ u # proc[p].caller
        /\ userRole[proc[p].caller] = "OWNER"

\* C37: a request for an owner-only route that names a lobby which does not
\* exist is answered with NotFound, whether the route's guard or the
\* service method finds the lobby missing.
MissingLobbyIsNotFound ==
    [][\A p \in Procs :
         (/\ proc[p].pc # "done"
          /\ proc'[p].pc = "done"
          /\ proc'[p].op \in OwnerOnlyOps
          /\ ~LobbyExists(proc'[p].lobbyId))
         => proc'[p].result.kind = "NotFound"]_vars

\* The live sessions that connected with a token AuthService issued for u
\* and whose verification has succeeded.
IssuedSessions(u) ==
    {s \in Sockets : /\ socket[s].open
                     /\ socket[s].token.kind = "issued"
                     /\ socket[s].token.sub = u
                     /\ socket[s].pc \in {"joinedUser", "joinedOwned",
                                          "joinedMember", "connected"}}

\* C38: a session that connected with a token generateJwt issued for u is
\* the registry's entry of u and is in the room of u, and a rejection of
\* u's request sends request-updated to that session.
IssuedTokenRegisters ==
    /\ [](\A u \in Users : \A s \in IssuedSessions(u) :
            /\ isUserConnected(u)
            /\ connectedUsers[u] = s
            /\ UserRoom(u) \in socket[s].rooms)
    /\ [][\A p \in Procs :
            (/\ Succeeds(p)
             /\ proc[p].op = "rejectJoinRequest"
             /\ IssuedSessions(proc[p].userId) # {})
            => \E e \in proc'[p].events :
                 /\ e.name = "request-updated"
                 /\ IssuedSessions(proc[p].userId) \subseteq e.to]_vars
====
